---- MODULE Spec2Model ----
(***************************************************************************)
(* tools/build-hdimage.py: the script that assembles build/hd-image from   *)
(* kern/image and the optional build/ramdisk.                              *)
(*                                                                         *)
(* Files are modelled byte-exactly as run-length encoded byte strings: a   *)
(* sequence of runs [b |-> byte, n |-> count], no empty run and no two     *)
(* adjacent runs of the same byte, so that equal byte strings are equal    *)
(* values.  Python integers are unbounded; they are modelled as two-limb   *)
(* numbers [hi, lo] in base 2^16 (value hi * 65536 + lo), which makes      *)
(* lengths of 2^32 and beyond representable.                               *)
(***************************************************************************)
EXTENDS Integers, Sequences, FiniteSets, TLC

\* ------------------------------------------------------------------------
\* Bounds of the model
\* ------------------------------------------------------------------------

\* How many times the script is run in one behaviour.
MaxRuns == 2

\* How many times the external build steps replace an input file.
MaxRebuilds == 1

\* ------------------------------------------------------------------------
\* Python integers (unbounded), as two limbs in base 2^16
\* ------------------------------------------------------------------------

Limb == 256 * 256

Num(k) == [hi |-> k \div Limb, lo |-> k % Limb]

Zero == Num(0)

NAdd(a, b) ==
    LET lo == a.lo + b.lo
    IN  [hi |-> a.hi + b.hi + (lo \div Limb), lo |-> lo % Limb]

\* a - b, for a >= b
NSub(a, b) ==
    LET lo == a.lo - b.lo
    IN  IF lo >= 0 THEN [hi |-> a.hi - b.hi, lo |-> lo]
                   ELSE [hi |-> a.hi - b.hi - 1, lo |-> lo + Limb]

NLt(a, b) == a.hi < b.hi \/ (a.hi = b.hi /\ a.lo < b.lo)

NLe(a, b) == a = b \/ NLt(a, b)

\* Python's a // 512 (a >= 0)
FloorDiv512(a) == Num(a.hi * 128 + (a.lo \div 512))

\* ceil(a / 512), computed independently of the script's formula
CeilDiv512(a) ==
    IF a.lo % 512 = 0 THEN FloorDiv512(a) ELSE NAdd(FloorDiv512(a), Num(1))

\* ------------------------------------------------------------------------
\* Byte strings
\* ------------------------------------------------------------------------

\* b * n, Python's bytes repetition
Rep(b, n) == IF n = Zero THEN <<>> ELSE <<[b |-> b, n |-> n]>>

\* f + g, concatenation
Cat(f, g) ==
    IF f = <<>> THEN g
    ELSE IF g = <<>> THEN f
    ELSE IF f[Len(f)].b = g[1].b
         THEN SubSeq(f, 1, Len(f) - 1)
              \o <<[b |-> g[1].b, n |-> NAdd(f[Len(f)].n, g[1].n)]>>
              \o Tail(g)
         ELSE f \o g

\* len(f)
RECURSIVE FLen(_)
FLen(f) == IF f = <<>> THEN Zero ELSE NAdd(Head(f).n, FLen(Tail(f)))

\* f[:n]
RECURSIVE Take(_, _)
Take(f, n) ==
    IF n = Zero \/ f = <<>> THEN <<>>
    ELSE IF NLe(Head(f).n, n)
         THEN <<Head(f)>> \o Take(Tail(f), NSub(n, Head(f).n))
         ELSE <<[b |-> Head(f).b, n |-> n]>>

\* f[n:]
RECURSIVE Drop(_, _)
Drop(f, n) ==
    IF n = Zero \/ f = <<>> THEN f
    ELSE IF NLe(Head(f).n, n)
         THEN Drop(Tail(f), NSub(n, Head(f).n))
         ELSE <<[b |-> Head(f).b, n |-> NSub(Head(f).n, n)]>> \o Tail(f)

\* f[a:b], for a <= b
Slice(f, a, b) == Take(Drop(f, a), NSub(b, a))

\* f[i], for i < len(f)
ByteAt(f, i) == Head(Drop(f, i)).b

\* The byte string of a sequence of byte values
RECURSIVE FromBytes(_)
FromBytes(s) ==
    IF s = <<>> THEN <<>> ELSE Cat(Rep(Head(s), Num(1)), FromBytes(Tail(s)))

\* ------------------------------------------------------------------------
\* Constants of the script
\* ------------------------------------------------------------------------

size_512k == Num(512 * 1024)

header_length == Num(8 + 4 + 4 + 8)

size_1MB == Num(1024 * 1024)

\* b'0', the byte the kernel image is expanded with
PadByte == 48

\* b'#', the byte the final image is expanded with
FillByte == 35

\* b'C', b'U', b'T', b'E', b'-', b'S', b'T', b'A'
SigStart == <<67, 85, 84, 69, 45, 83, 84, 65>>

\* b'C', b'U', b'T', b'E', b'-', b'E', b'N', b'D'
SigEnd == <<67, 85, 84, 69, 45, 69, 78, 68>>

\* ------------------------------------------------------------------------
\* File operations
\* ------------------------------------------------------------------------

AbsentFile == [present |-> FALSE, readable |-> FALSE, data |-> <<>>]

File(d) == [present |-> TRUE, readable |-> TRUE, data |-> d]

Unreadable(d) == [present |-> TRUE, readable |-> FALSE, data |-> d]

\* A variant of FileExists: the ramdisk is taken to be always there
FileExists_Always(f) == TRUE

\* os.path.exists(path)
FileExists(f) == f.present

\* open(path, 'rb') succeeds
CanRead(f) == f.present /\ f.readable

\* A variant of OpenWB: the image is opened with 'ab' instead of 'wb'
OpenWB_Append(old) == [data |-> old, pos |-> FLen(old)]

\* open(path, 'wb'): the file is created or emptied, the position is 0
OpenWB(old) == [data |-> <<>>, pos |-> Zero]

\* open(path, 'ab'): the contents are kept, every write goes to the end
OpenAB(old) == [data |-> old, pos |-> FLen(old)]

\* f.write(buf) at position pos (a gap past the end reads as zero bytes)
WriteAt(data, pos, buf) ==
    LET gap == IF NLt(FLen(data), pos)
               THEN Rep(0, NSub(pos, FLen(data))) ELSE <<>>
    IN  Cat(Cat(Cat(Take(data, pos), gap), buf),
            Drop(data, NAdd(pos, FLen(buf))))

\* A variant of TruncateTo: a longer file is not cut
TruncateTo_NoCut(data, n) ==
    IF NLe(n, FLen(data)) THEN data
    ELSE Cat(data, Rep(0, NSub(n, FLen(data))))

\* f.truncate(n): cut to n bytes, or extend with zero bytes up to n
TruncateTo(data, n) ==
    IF NLe(n, FLen(data)) THEN Take(data, n)
    ELSE Cat(data, Rep(0, NSub(n, FLen(data))))

\* ------------------------------------------------------------------------
\* The ramdisk header
\* ------------------------------------------------------------------------

\* A variant of RamdiskSectors: ramdisk_length//512 + 1
RamdiskSectors_NoMinusOne(length) == NAdd(FloorDiv512(length), Num(1))

\* ramdisk_sectors = (ramdisk_length - 1)//512 + 1
RamdiskSectors(length) == NAdd(FloorDiv512(NSub(length, Num(1))), Num(1))

\* A variant of RamdiskBytes: the header's length is not taken off
RamdiskBytes_WithHeader(length) == length

\* ramdisk_length - header_length, the second 'I' argument of struct.pack
RamdiskBytes(length) == NSub(length, header_length)

\* A variant of FitsI: no range check, the value is cut to its low 32 bits
FitsI_Wrap(x) == TRUE

\* struct.pack accepts x for format 'I' iff 0 <= x < 2^32
FitsI(x) == x.hi < Limb

\* The 4 bytes of format 'I' in native order ('=': standard size, 4)
PackI(x, order) ==
    LET le == <<x.lo % 256, x.lo \div 256, x.hi % 256, (x.hi \div 256) % 256>>
    IN  IF order = "little" THEN le ELSE <<le[4], le[3], le[2], le[1]>>

\* struct.pack('=8cII8c', ...)
StructPack(sectors, bytes, order) ==
    FromBytes(SigStart \o PackI(sectors, order) \o PackI(bytes, order) \o SigEnd)

\* struct.unpack of one 'I' field at offset off of the byte string f
UnpackI(f, off, order) ==
    LET b == [i \in 1..4 |-> ByteAt(f, NAdd(off, Num(i - 1)))]
        le == IF order = "little" THEN b ELSE [i \in 1..4 |-> b[5 - i]]
    IN  [hi |-> le[4] * 256 + le[3], lo |-> le[2] * 256 + le[1]]

\* ------------------------------------------------------------------------
\* Inputs: the files the external build steps can leave behind
\* ------------------------------------------------------------------------

\* Contents of kern/image, below, at and above the 512 KB boundary
KernelData ==
    { <<>>,
      Rep(255, Num(10)),
      Cat(Cat(Rep(0, Num(5)), Rep(48, Num(5))), Rep(255, Num(3))),
      Rep(255, Num(524287)),
      Rep(170, Num(524288)),
      Cat(Rep(255, Num(524288)), Rep(170, Num(1))),
      Cat(Rep(255, Num(524280)), Rep(170, Num(75720))) }

KernelFiles ==
    {AbsentFile, Unreadable(Rep(255, Num(10)))} \cup {File(d) : d \in KernelData}

\* 2^32 - 1 and 2^32
MaxI == [hi |-> Limb - 1, lo |-> Limb - 1]
TwoTo32 == [hi |-> Limb, lo |-> 0]

\* Contents of build/ramdisk: lengths 0, 488, 489, 1000, 2^32 - 1, 2^32
RamdiskData ==
    { <<>>,
      Cat(Rep(7, Num(400)), Rep(35, Num(88))),
      Cat(Rep(7, Num(400)), Rep(9, Num(89))),
      Cat(Rep(0, Num(600)), Rep(35, Num(400))),
      Cat(Rep(7, Num(1)), Rep(9, NSub(MaxI, Num(1)))),
      Cat(Rep(7, Num(1)), Rep(9, MaxI)) }

RamdiskFiles ==
    {AbsentFile, Unreadable(Rep(7, Num(1000)))} \cup {File(d) : d \in RamdiskData}

\* What the kernel build step can leave when it runs again
RebuiltKernels ==
    { AbsentFile,
      File(Rep(255, Num(10))),
      File(Cat(Rep(255, Num(524280)), Rep(170, Num(75720)))) }

\* What the ramdisk build step can leave when it runs again
RebuiltRamdisks ==
    { AbsentFile,
      Unreadable(Rep(7, Num(1000))),
      File(Cat(Rep(7, Num(400)), Rep(35, Num(88)))),
      File(Cat(Rep(0, Num(600)), Rep(35, Num(400)))) }

\* What build/hd-image holds before the first run: nothing, a short file, a
\* file longer than any image built from the small inputs
OldImages ==
    {AbsentFile, File(Rep(17, Num(5))), File(Rep(17, Num(2000000)))}

\* ------------------------------------------------------------------------
\* State
\* ------------------------------------------------------------------------

VARIABLES
    pc,               \* the line the script executes next, or "done"/"failed"
    build_folder,     \* whether build/ exists
    kernel_file,      \* kern/image
    ramdisk_file,     \* build/ramdisk
    final_image,      \* build/hd-image
    fpos,             \* the position of the open handle f
    buf1, ramdisk_length, ramdisk_buffer, ramdisk_sectors, ramdisk_header,
    byteorder,        \* the build host's native byte order
    failed_at,        \* the line whose exception ended the run
    inputs,           \* kern/image and build/ramdisk when the run began
    old_image,        \* build/hd-image when the run began
    prev,             \* inputs and image of the last successful earlier run
    runs, rebuilds

vars == <<pc, build_folder, kernel_file, ramdisk_file, final_image, fpos,
          buf1, ramdisk_length, ramdisk_buffer, ramdisk_sectors,
          ramdisk_header, byteorder, failed_at, inputs, old_image, prev,
          runs, rebuilds>>

files == <<build_folder, kernel_file, ramdisk_file>>

locals == <<buf1, ramdisk_length, ramdisk_buffer, ramdisk_sectors,
            ramdisk_header>>

history == <<inputs, old_image, prev, runs, rebuilds>>

NoInputs == [kernel |-> AbsentFile, ramdisk |-> AbsentFile]

NoPrev == [valid |-> FALSE, inputs |-> NoInputs, image |-> <<>>]

\* A variant of Order: the image is opened before the kernel is read
Order_OpenFirst ==
    <<"l44", "l51", "l49", "l52", "l53", "l54", "l59", "l60", "l61",
      "l64", "l75", "l76", "l77", "l78", "done">>

\* The statements of the script in program order, by line
Order == <<"l44", "l49", "l51", "l52", "l53", "l54", "l59", "l60", "l61",
           "l64", "l75", "l76", "l77", "l78", "done">>

\* The statement after the one at line l
Succ(l) == Order[(CHOOSE i \in 1..Len(Order) : Order[i] = l) + 1]

Init ==
    /\ pc = Order[1]
    /\ byteorder \in {"little", "big"}
    /\ kernel_file \in KernelFiles
    /\ build_folder \in BOOLEAN
    /\ ramdisk_file \in IF build_folder THEN RamdiskFiles ELSE {AbsentFile}
    /\ final_image \in IF build_folder THEN OldImages ELSE {AbsentFile}
    /\ fpos = Zero
    /\ buf1 = <<>>
    /\ ramdisk_length = Zero
    /\ ramdisk_buffer = <<>>
    /\ ramdisk_sectors = Zero
    /\ ramdisk_header = <<>>
    /\ failed_at = "none"
    /\ inputs = [kernel |-> kernel_file, ramdisk |-> ramdisk_file]
    /\ old_image = final_image
    /\ prev = NoPrev
    /\ runs = 1
    /\ rebuilds = 0

\* A variant of Raise: the exception is caught and the script goes on
Raise_Swallowed(l) ==
    /\ pc' = Order[(CHOOSE i \in 1..Len(Order) : Order[i] = l) + 1]
    /\ failed_at' = l

\* An uncaught exception at line l
Raise(l) ==
    /\ pc' = "failed"
    /\ failed_at' = l

\* ------------------------------------------------------------------------
\* The script, one action per statement
\* ------------------------------------------------------------------------

\* 44-45: if not os.path.exists(build_folder): os.makedirs(build_folder)
MakeDirs ==
    /\ pc = "l44"
    /\ build_folder' = TRUE
    /\ pc' = Succ("l44")
    /\ UNCHANGED <<kernel_file, ramdisk_file, final_image, fpos, locals,
                   byteorder, failed_at, history>>

\* 49-50: with open(kernel_file, 'rb') as f: buf1 = f.read()
ReadKernel ==
    /\ pc = "l49"
    /\ IF CanRead(kernel_file)
       THEN /\ buf1' = kernel_file.data
            /\ pc' = Succ("l49")
            /\ UNCHANGED failed_at
       ELSE /\ Raise("l49")
            /\ UNCHANGED buf1
    /\ UNCHANGED <<files, final_image, fpos, ramdisk_length, ramdisk_buffer,
                   ramdisk_sectors, ramdisk_header, byteorder, history>>

\* 51: with open(final_image, 'wb') as f
OpenImage ==
    /\ pc = "l51"
    /\ LET h == OpenWB(final_image.data)
       IN  /\ final_image' = File(h.data)
           /\ fpos' = h.pos
    /\ pc' = Succ("l51")
    /\ UNCHANGED <<files, locals, byteorder, failed_at, history>>

\* 52: f.write(buf1)
WriteKernel ==
    /\ pc = "l52"
    /\ final_image' = File(WriteAt(final_image.data, fpos, buf1))
    /\ fpos' = NAdd(fpos, FLen(buf1))
    /\ pc' = Succ("l52")
    /\ UNCHANGED <<files, locals, byteorder, failed_at, history>>

\* 53: f.write(b'0' * size_512k)
WritePad ==
    /\ pc = "l53"
    /\ final_image' = File(WriteAt(final_image.data, fpos, Rep(PadByte, size_512k)))
    /\ fpos' = NAdd(fpos, size_512k)
    /\ pc' = Succ("l53")
    /\ UNCHANGED <<files, locals, byteorder, failed_at, history>>

\* 54: f.truncate(size_512k), and the file is closed
TruncateImage ==
    /\ pc = "l54"
    /\ final_image' = File(TruncateTo(final_image.data, size_512k))
    /\ fpos' = Zero
    /\ pc' = Succ("l54")
    /\ UNCHANGED <<files, locals, byteorder, failed_at, history>>

\* 57-59, 62-63: ramdisk_length = header_length; if os.path.exists(ramdisk_file)
CheckRamdisk ==
    /\ pc = "l59"
    /\ ramdisk_length' = header_length
    /\ IF FileExists(ramdisk_file)
       THEN /\ pc' = Succ("l59")
            /\ UNCHANGED ramdisk_buffer
       ELSE /\ ramdisk_buffer' = <<>>
            /\ pc' = "l64"
    /\ UNCHANGED <<files, final_image, fpos, buf1, ramdisk_sectors,
                   ramdisk_header, byteorder, failed_at, history>>

\* 60: ramdisk_length += os.path.getsize(ramdisk_file)
GetSize ==
    /\ pc = "l60"
    /\ IF ramdisk_file.present
       THEN /\ ramdisk_length' = NAdd(ramdisk_length, FLen(ramdisk_file.data))
            /\ pc' = Succ("l60")
            /\ UNCHANGED failed_at
       ELSE /\ Raise("l60")
            /\ UNCHANGED ramdisk_length
    /\ UNCHANGED <<files, final_image, fpos, buf1, ramdisk_buffer,
                   ramdisk_sectors, ramdisk_header, byteorder, history>>

\* 61: ramdisk_buffer = open(ramdisk_file, 'rb').read()
ReadRamdisk ==
    /\ pc = "l61"
    /\ IF CanRead(ramdisk_file)
       THEN /\ ramdisk_buffer' = ramdisk_file.data
            /\ pc' = Succ("l61")
            /\ UNCHANGED failed_at
       ELSE /\ Raise("l61")
            /\ UNCHANGED ramdisk_buffer
    /\ UNCHANGED <<files, final_image, fpos, buf1, ramdisk_length,
                   ramdisk_sectors, ramdisk_header, byteorder, history>>

\* 64-70: ramdisk_sectors, ramdisk_header = struct.pack(...), assert
PackHeader ==
    /\ pc = "l64"
    /\ ramdisk_sectors' = RamdiskSectors(ramdisk_length)
    /\ IF FitsI(ramdisk_sectors') /\ FitsI(RamdiskBytes(ramdisk_length))
       THEN /\ ramdisk_header' = StructPack(ramdisk_sectors',
                                            RamdiskBytes(ramdisk_length),
                                            byteorder)
            /\ IF FLen(ramdisk_header') = header_length
               THEN pc' = Succ("l64") /\ UNCHANGED failed_at
               ELSE Raise("l70")
       ELSE /\ Raise("l65")
            /\ UNCHANGED ramdisk_header
    /\ UNCHANGED <<files, final_image, fpos, buf1, ramdisk_length,
                   ramdisk_buffer, byteorder, history>>

\* 75: with open(final_image, 'ab') as f
OpenAppend ==
    /\ pc = "l75"
    /\ LET h == OpenAB(final_image.data)
       IN  /\ final_image' = File(h.data)
           /\ fpos' = h.pos
    /\ pc' = Succ("l75")
    /\ UNCHANGED <<files, locals, byteorder, failed_at, history>>

\* f.write(buf) on a handle opened for appending
AppendWrite(buf, line) ==
    /\ pc = line
    /\ LET end == FLen(final_image.data)
       IN  /\ final_image' = File(WriteAt(final_image.data, end, buf))
           /\ fpos' = NAdd(end, FLen(buf))
    /\ pc' = Succ(line)
    /\ UNCHANGED <<files, locals, byteorder, failed_at, history>>

\* 76: f.write(ramdisk_header)
AppendHeader == AppendWrite(ramdisk_header, "l76")

\* 77: f.write(ramdisk_buffer)
AppendRamdisk == AppendWrite(ramdisk_buffer, "l77")

\* 78: f.write(b'#' * size_1MB), and the script ends
AppendFiller == AppendWrite(Rep(FillByte, size_1MB), "l78")

Step ==
    \/ MakeDirs \/ ReadKernel \/ OpenImage \/ WriteKernel \/ WritePad
    \/ TruncateImage \/ CheckRamdisk \/ GetSize \/ ReadRamdisk \/ PackHeader
    \/ OpenAppend \/ AppendHeader \/ AppendRamdisk \/ AppendFiller

\* ------------------------------------------------------------------------
\* The environment: the script is run again, the inputs are rebuilt
\* ------------------------------------------------------------------------

Ended == pc \in {"done", "failed"}

\* The script is started again
RunAgain ==
    /\ Ended
    /\ runs < MaxRuns
    /\ runs' = runs + 1
    /\ pc' = Order[1]
    /\ failed_at' = "none"
    /\ inputs' = [kernel |-> kernel_file, ramdisk |-> ramdisk_file]
    /\ old_image' = final_image
    /\ prev' = IF pc = "done"
               THEN [valid |-> TRUE, inputs |-> inputs,
                     image |-> final_image.data]
               ELSE prev
    /\ fpos' = Zero
    /\ buf1' = <<>>
    /\ ramdisk_length' = Zero
    /\ ramdisk_buffer' = <<>>
    /\ ramdisk_sectors' = Zero
    /\ ramdisk_header' = <<>>
    /\ UNCHANGED <<files, final_image, byteorder, rebuilds>>

\* The kernel build step replaces kern/image
ReplaceKernel ==
    /\ rebuilds < MaxRebuilds
    /\ rebuilds' = rebuilds + 1
    /\ \E k \in RebuiltKernels \ {kernel_file} : kernel_file' = k
    /\ UNCHANGED <<pc, build_folder, ramdisk_file, final_image, fpos, locals,
                   byteorder, failed_at, inputs, old_image, prev, runs>>

\* The ramdisk build step creates, replaces or removes build/ramdisk
ReplaceRamdisk ==
    /\ rebuilds < MaxRebuilds
    /\ rebuilds' = rebuilds + 1
    /\ \E r \in RebuiltRamdisks \ {ramdisk_file} : ramdisk_file' = r
    /\ build_folder' = (build_folder \/ ramdisk_file'.present)
    /\ UNCHANGED <<pc, kernel_file, final_image, fpos, locals, byteorder,
                   failed_at, inputs, old_image, prev, runs>>

\* The build steps run between two runs of the script
RebuildBetweenRuns == Ended /\ (ReplaceKernel \/ ReplaceRamdisk)

\* The ramdisk build step runs while the script does
RebuildDuringRun == ~Ended /\ ReplaceRamdisk

Next == Step \/ RunAgain \/ RebuildBetweenRuns

Spec == Init /\ [][Next]_vars

NextRace == Next \/ RebuildDuringRun

SpecRace == Init /\ [][NextRace]_vars

\* ------------------------------------------------------------------------
\* Reading a finished image back
\* ------------------------------------------------------------------------

Image == final_image.data

\* L, the length of the kernel file of this run
KernelLen == FLen(inputs.kernel.data)

\* P, the length of the ramdisk file of this run (0 when it is absent)
PayloadLen == FLen(inputs.ramdisk.data)

Min(a, b) == IF NLe(a, b) THEN a ELSE b

\* The offsets of the external layout
HeaderOff == size_512k
SectorsOff == NAdd(size_512k, Num(8))
BytesOff == NAdd(size_512k, Num(12))
EndSigOff == NAdd(size_512k, Num(16))
PayloadOff == NAdd(size_512k, header_length)

SectorField == UnpackI(Image, SectorsOff, byteorder)

BytesField == UnpackI(Image, BytesOff, byteorder)

\* The bytes between the header and the last 1 MB of the image
WrittenPayload == Slice(Image, PayloadOff, NSub(FLen(Image), size_1MB))

\* The first 512 KB hold the kernel bytes, left-aligned and cut at 512 KB
KernelLeftAligned ==
    /\ NLe(size_512k, FLen(Image))
    /\ Take(Image, Min(KernelLen, size_512k))
         = Take(inputs.kernel.data, size_512k)

\* The image is the 512 KB kernel region and nothing else
OnlyKernelRegion == FLen(Image) = size_512k /\ KernelLeftAligned

\* ------------------------------------------------------------------------
\* Claims
\* ------------------------------------------------------------------------

\* C1: after a successful run the first 524288 bytes of the image are the
\* kernel bytes left-aligned; bytes [L, 524288) are zero bytes (0x00) when
\* L < 524288, and the kernel is cut to its first 524288 bytes when longer.
C1_KernelRegionZeroPadded ==
    pc = "done" =>
        /\ KernelLeftAligned
        /\ NLt(KernelLen, size_512k) =>
             Slice(Image, KernelLen, size_512k)
               = Rep(0, NSub(size_512k, KernelLen))

\* C2: a successful run leaves exactly 524288 + 24 + P + 1048576 bytes: the
\* kernel region, the 24-byte header, the payload verbatim, then 1048576
\* bytes of the one filler byte, whatever the sizes.
C2_ImageLayout ==
    pc = "done" =>
        /\ FLen(Image)
             = NAdd(NAdd(NAdd(size_512k, header_length), PayloadLen), size_1MB)
        /\ KernelLeftAligned
        /\ Slice(Image, HeaderOff, SectorsOff) = FromBytes(SigStart)
        /\ Slice(Image, EndSigOff, PayloadOff) = FromBytes(SigEnd)
        /\ Slice(Image, PayloadOff, NAdd(PayloadOff, PayloadLen))
             = inputs.ramdisk.data
        /\ Drop(Image, NAdd(PayloadOff, PayloadLen)) = Rep(FillByte, size_1MB)

\* C2 witness: a finished image of a kernel longer than 512 KB and a
\* non-empty ramdisk.
C2_Witness ==
    /\ pc = "done"
    /\ NLt(size_512k, KernelLen)
    /\ NLt(Zero, PayloadLen)

\* C3: the header's sector count is ceil((24 + P) / 512).
C3_SectorCount ==
    pc = "done" => SectorField = CeilDiv512(NAdd(header_length, PayloadLen))

\* C3 witness: a finished image whose header plus payload fill exactly one
\* sector (P = 488).
C3_Witness ==
    /\ pc = "done"
    /\ PayloadLen = Num(488)
    /\ SectorField = Num(1)

\* C4: the header's byte length is P, the payload alone, without the 24
\* bytes of the header.
C4_ByteLength ==
    pc = "done" => BytesField = PayloadLen

\* C4 witness: a finished image of a 1000-byte ramdisk (2 sectors, 1000
\* bytes).
C4_Witness ==
    /\ pc = "done"
    /\ PayloadLen = Num(1000)
    /\ BytesField = Num(1000)
    /\ SectorField = Num(2)

\* The image as a function of the two inputs alone
ExpectedImage(kernel, ramdisk, order) ==
    Cat(Cat(Cat(Take(Cat(kernel, Rep(PadByte, size_512k)), size_512k),
                StructPack(CeilDiv512(NAdd(header_length, FLen(ramdisk))),
                           FLen(ramdisk), order)),
            ramdisk),
        Rep(FillByte, size_1MB))

\* C5: the finished image depends on the two inputs only, not on what the
\* output file held before; a second run on unchanged inputs gives the same
\* bytes as the first.
C5_Idempotent ==
    pc = "done" =>
        /\ Image = ExpectedImage(inputs.kernel.data, inputs.ramdisk.data,
                                 byteorder)
        /\ (prev.valid /\ prev.inputs = inputs) => Image = prev.image

\* C5 witness: a second successful run on the inputs of the first.
C5_Witness ==
    /\ pc = "done"
    /\ prev.valid
    /\ prev.inputs = inputs
    /\ old_image.data = prev.image

\* C6: when the kernel file is missing or unreadable the run fails at the
\* kernel read and the output file is as it was when the run began.
C6_KernelMissingNoWrite ==
    ~CanRead(inputs.kernel) =>
        /\ pc \in {"l44", "l49", "failed"}
        /\ pc = "failed" => failed_at = "l49"
        /\ final_image = old_image

\* C6 witness: a run that failed on the kernel and left the image of the
\* previous run in place.
C6_Witness ==
    /\ pc = "failed"
    /\ failed_at = "l49"
    /\ prev.valid
    /\ final_image = File(prev.image)

\* C7: with no ramdisk file the run does not fail, and its image has byte
\* length 0, sector count 1 and the filler right after the header.
C7_AbsentRamdisk ==
    (~inputs.ramdisk.present /\ CanRead(inputs.kernel)) =>
        /\ pc # "failed"
        /\ pc = "done" =>
             /\ BytesField = Zero
             /\ SectorField = Num(1)
             /\ Drop(Image, PayloadOff) = Rep(FillByte, size_1MB)

\* C7 witness: a finished run without a ramdisk file.
C7_Witness ==
    /\ pc = "done"
    /\ ~inputs.ramdisk.present
    /\ FLen(Image) = NAdd(PayloadOff, size_1MB)

\* A run that has failed leaves the file as the failing statement found it
FailedState ==
    /\ failed_at # "none" => pc = "failed"
    /\ pc = "failed" =>
         IF failed_at = "l49" THEN final_image = old_image
                              ELSE OnlyKernelRegion
    /\ pc = "done" =>
         FLen(Image)
           = NAdd(NAdd(NAdd(size_512k, header_length), PayloadLen), size_1MB)

C9_HeaderMatchesPayload ==
    pc = "done" =>
        /\ BytesField = FLen(WrittenPayload)
        /\ SectorField
             = CeilDiv512(NAdd(header_length, FLen(WrittenPayload)))

\* C10: the two 32-bit fields never wrap: a finished image has P < 2^32 and
\* both fields exact; with P >= 2^32 the run fails packing the header and
\* the output holds the kernel region only.
C10_NoWrap ==
    /\ pc = "done" =>
         /\ NLt(PayloadLen, TwoTo32)
         /\ BytesField = PayloadLen
         /\ SectorField = CeilDiv512(NAdd(header_length, PayloadLen))
    /\ (NLe(TwoTo32, PayloadLen) /\ CanRead(inputs.ramdisk)) =>
         /\ pc \notin {"l75", "l76", "l77", "l78", "done"}
         /\ pc = "failed" /\ CanRead(inputs.kernel) =>
              failed_at = "l65" /\ OnlyKernelRegion

\* C10 witness: a 2^32-byte ramdisk made struct.pack fail.
C10_Witness ==
    /\ pc = "failed"
    /\ failed_at = "l65"
    /\ PayloadLen = TwoTo32
    /\ OnlyKernelRegion

====
